---- MODULE Spec2Model ----
(***************************************************************************)
(* Model of compas_notebook.viewer.Viewer (viewer.py) and of the scene     *)
(* object plugin of compas_pythreejs (scene/__init__.py).                  *)
(*                                                                         *)
(* Widgets and three.js objects are identified by the number of the show() *)
(* call that constructed them (1, 2, ...); 0 stands for an attribute that  *)
(* was never assigned (reading it raises AttributeError) or, for the       *)
(* attributes __init__ sets to None, for None.  A renderable handle of a   *)
(* scene object is identified by the object's position in the scene and    *)
(* the position of the handle in the object's guids list.                  *)
(* Pixel sizes ("504px") are modelled by their number of pixels, distances *)
(* of the orbit controls in tenths of a unit.                              *)
(***************************************************************************)
EXTENDS Integers, Sequences, FiniteSets, TLC

VARIABLES config, objects, self, textValue, gen, last, invoked, plugin

vars == <<config, objects, self, textValue, gen, last, invoked, plugin>>

(* ------------------------------ bounds -------------------------------- *)

MaxShows == 2
MaxObjects == 2
Parts == 2

(* ------------------------- program constants -------------------------- *)

\* bug: the height of the toolbar widget itself
ToolbarHeight_widget == 48
ToolbarHeight == 64
StatusbarHeight == 48
Margin == 4
MaxDistanceTenths == 10000
MinDistanceTenths == 1

(* --------------------------- input domains ---------------------------- *)

Viewports == {"top", "perspective", "front"}
Heights == {300, 500}
Texts == {"hello", "bye"}
PartCounts == {Parts}

CheckboxA == [type |-> "checkbox", action |-> "toggle_a", value |-> TRUE, text |-> "A"]
CheckboxB == [type |-> "checkbox", action |-> "toggle_b", value |-> FALSE, text |-> "B"]
OtherC == [type |-> "slider", action |-> "slide_c", value |-> FALSE, text |-> "C"]

ItemLists ==
    { <<>>, <<CheckboxA>>, <<CheckboxA, CheckboxB>>, <<CheckboxA, OtherC>>,
      <<OtherC, CheckboxB, CheckboxA>> }

(* ----------------------- pythreejs scene graph ------------------------ *)

GridHelper(n) == <<"grid", n, 0>>
AxesHelper(n) == <<"axes", n, 0>>
Mesh(i, k) == <<"mesh", i, k>>

\* Object3D.add / Object3D.remove as used on self.scene3
Add(children, child) == Append(children, child)
Remove(children, child) == SelectSeq(children, LAMBDA c : c # child)

RECURSIVE AddAll(_, _)
AddAll(children, handles) ==
    IF handles = <<>> THEN children
    ELSE AddAll(Add(children, Head(handles)), Tail(handles))

RECURSIVE RemoveAll(_, _)
RemoveAll(children, snapshot) ==
    IF snapshot = <<>> THEN children
    ELSE RemoveAll(Remove(children, Head(snapshot)), Tail(snapshot))

(* ------------------------------ the scene ----------------------------- *)

\* o.guids of the i-th scene object: empty until the object has been drawn
Guids(objs, i) ==
    IF objs[i].drawn THEN [k \in 1..objs[i].parts |-> Mesh(i, k)] ELSE <<>>

\* scene.draw(): every object of the scene gets its renderable handles
Draw(objs) == [i \in DOMAIN objs |-> [objs[i] EXCEPT !.drawn = TRUE]]

RECURSIVE AllGuidsFrom(_, _)
AllGuidsFrom(objs, i) ==
    IF i > Len(objs) THEN <<>> ELSE Guids(objs, i) \o AllGuidsFrom(objs, i + 1)

\* for o in self.scene.objects: for o3 in o.guids: self.scene3.add(o3)
RECURSIVE AttachFrom(_, _, _)
AttachFrom(children, objs, i) ==
    IF i > Len(objs) THEN children
    ELSE AttachFrom(AddAll(children, Guids(objs, i)), objs, i + 1)

\* bug: the objects are attached last to first
RECURSIVE AttachBackFrom(_, _, _)
AttachBackFrom(children, objs, i) ==
    IF i < 1 THEN children
    ELSE AttachBackFrom(AddAll(children, Guids(objs, i)), objs, i - 1)

AttachGuids_reversed(children, objs) == AttachBackFrom(children, objs, Len(objs))

AttachGuids(children, objs) == AttachFrom(children, objs, 1)

(* ------------------------------ the viewer ---------------------------- *)

NoCamera == [kind |-> "unset", id |-> 0]
NoControls == [controlling |-> 0, enableRotate |-> TRUE, maxDistance |-> 0, minDistance |-> 0]
NoRenderer == [id |-> 0, scene |-> 0, camera |-> 0]
NoSidebar == [checkboxes |-> <<>>, item |-> <<>>]
NoMain == [id |-> 0, children |-> <<>>, sidebar |-> NoSidebar, renderer |-> 0]
NoUi == [id |-> 0, children |-> <<>>, height |-> 0]

\* Viewer.__init__: toolbar, main, statusbar and statustext are None, the
\* other attributes do not exist yet
NewViewer ==
    [scene3 |-> 0, children |-> <<>>, grid3 |-> 0, axes3 |-> 0,
     camera3 |-> NoCamera, controls3 |-> NoControls, renderer3 |-> NoRenderer,
     ui |-> NoUi, toolbar |-> 0, main |-> NoMain, statusbar |-> 0, statustext |-> 0]

\* bug: enableRotate is left at its default
OrbitControls_rotating(n, rotate) ==
    [controlling |-> n, enableRotate |-> TRUE,
     maxDistance |-> MaxDistanceTenths, minDistance |-> MinDistanceTenths]

OrbitControls(n, rotate) ==
    [controlling |-> n, enableRotate |-> rotate,
     maxDistance |-> MaxDistanceTenths, minDistance |-> MinDistanceTenths]

Renderer(s, n) == [id |-> n, scene |-> s.scene3, camera |-> s.camera3.id]

\* bug: any viewport that is not "top" gets the perspective camera
init_webgl_fallback(s, cfg, n) ==
    LET s1 == [s EXCEPT !.scene3 = n, !.children = <<>>]
        s2 == IF cfg.view.show_grid
              THEN [s1 EXCEPT !.grid3 = n, !.children = Add(@, GridHelper(n))]
              ELSE s1
        s3 == IF cfg.view.show_axes
              THEN [s2 EXCEPT !.axes3 = n, !.children = Add(@, AxesHelper(n))]
              ELSE s2
        kind == IF cfg.view.viewport = "top" THEN "orthographic" ELSE "perspective"
        cam == [s3 EXCEPT !.camera3 = [kind |-> kind, id |-> n],
                          !.controls3 = [controlling |-> n,
                                         enableRotate |-> cfg.view.viewport # "top",
                                         maxDistance |-> MaxDistanceTenths,
                                         minDistance |-> MinDistanceTenths]]
    IN  [raised |-> FALSE,
         self |-> [cam EXCEPT !.renderer3 = [id |-> n, scene |-> n, camera |-> n]]]

\* bug: the scene graph of the previous show() is kept instead of a new one
init_webgl_reuse(s, cfg, n) ==
    LET s1 == [s EXCEPT !.scene3 = n]
        s2 == IF cfg.view.show_grid
              THEN [s1 EXCEPT !.grid3 = n, !.children = Add(@, GridHelper(n))]
              ELSE s1
        s3 == IF cfg.view.show_axes
              THEN [s2 EXCEPT !.axes3 = n, !.children = Add(@, AxesHelper(n))]
              ELSE s2
        kind == IF cfg.view.viewport = "top" THEN "orthographic" ELSE "perspective"
        cam == [s3 EXCEPT !.camera3 = [kind |-> kind, id |-> n],
                          !.controls3 = [controlling |-> n,
                                         enableRotate |-> cfg.view.viewport # "top",
                                         maxDistance |-> MaxDistanceTenths,
                                         minDistance |-> MinDistanceTenths]]
    IN  IF cfg.view.viewport \in {"top", "perspective"}
        THEN [raised |-> FALSE,
              self |-> [cam EXCEPT !.renderer3 = [id |-> n, scene |-> n, camera |-> n]]]
        ELSE [raised |-> TRUE, self |-> s3]

\* Viewer.init_webgl called by the n-th show(); raised: NotImplementedError
init_webgl(s, cfg, n) ==
    LET s1 == [s EXCEPT !.scene3 = n, !.children = <<>>]
        s2 == IF cfg.view.show_grid
              THEN [s1 EXCEPT !.grid3 = n, !.children = Add(@, GridHelper(n))]
              ELSE s1
        s3 == IF cfg.view.show_axes
              THEN [s2 EXCEPT !.axes3 = n, !.children = Add(@, AxesHelper(n))]
              ELSE s2
        top == [s3 EXCEPT !.camera3 = [kind |-> "orthographic", id |-> n],
                          !.controls3 = OrbitControls(n, FALSE)]
        persp == [s3 EXCEPT !.camera3 = [kind |-> "perspective", id |-> n],
                            !.controls3 = OrbitControls(n, TRUE)]
    IN  IF cfg.view.viewport = "top"
        THEN [raised |-> FALSE, self |-> [top EXCEPT !.renderer3 = Renderer(top, n)]]
        ELSE IF cfg.view.viewport = "perspective"
        THEN [raised |-> FALSE, self |-> [persp EXCEPT !.renderer3 = Renderer(persp, n)]]
        ELSE [raised |-> TRUE, self |-> s3]

\* the checkboxes make_sidebar creates for items[i..]: one per "checkbox" item
RECURSIVE Checkboxes(_, _)
Checkboxes(items, i) ==
    IF i > Len(items) THEN <<>>
    ELSE IF items[i].type = "checkbox"
    THEN <<[src |-> i, value |-> items[i].value, description |-> items[i].text]>>
             \o Checkboxes(items, i + 1)
    ELSE Checkboxes(items, i + 1)

\* the binding of the loop variable "item" the observers of make_sidebar
\* close over: the one binding of the enclosing call, left at the last item
ClosureItem(items) == IF items = <<>> THEN <<>> ELSE <<items[Len(items)]>>

\* Viewer.make_sidebar
make_sidebar(cfg) ==
    [checkboxes |-> Checkboxes(cfg.ui.sidebar.items, 1),
     item |-> ClosureItem(cfg.ui.sidebar.items)]

\* Viewer.make_main (with make_view3d, which wraps self.renderer3)
make_main(s, cfg, n) ==
    [id |-> n,
     children |-> IF cfg.ui.sidebar.show THEN <<"sidebar", "view3d">> ELSE <<"view3d">>,
     sidebar |-> IF cfg.ui.sidebar.show THEN make_sidebar(cfg) ELSE NoSidebar,
     renderer |-> s.renderer3.id]

\* Viewer.init_ui called by the n-th show()
init_ui(s, cfg, n) ==
    LET s1 == IF cfg.ui.show_toolbar THEN [s EXCEPT !.toolbar = n] ELSE s
        c1 == IF cfg.ui.show_toolbar THEN <<"toolbar">> ELSE <<>>
        h1 == IF cfg.ui.show_toolbar
              THEN cfg.view.height + ToolbarHeight ELSE cfg.view.height
        s2 == [s1 EXCEPT !.main = make_main(s1, cfg, n)]
        c2 == Append(c1, "main")
        s3 == IF cfg.ui.show_statusbar
              THEN [s2 EXCEPT !.statusbar = n, !.statustext = n] ELSE s2
        c3 == IF cfg.ui.show_statusbar THEN Append(c2, "statusbar") ELSE c2
        h3 == IF cfg.ui.show_statusbar THEN h1 + StatusbarHeight ELSE h1
    IN  [s3 EXCEPT !.ui = [id |-> n, children |-> c3, height |-> h3 + Margin]]

\* Viewer.show, the n-th call
show(s, cfg, objs, n) ==
    LET w == init_webgl(s, cfg, n)
        u == init_ui(w.self, cfg, n)
        d == Draw(objs)
    IN  IF w.raised
        THEN [self |-> w.self, objects |-> objs, result |-> "NotImplementedError",
              calls |-> <<"init_webgl">>]
        ELSE [self |-> [u EXCEPT !.children = AttachGuids(@, d)], objects |-> d,
              result |-> "ok",
              calls |-> <<"init_webgl", "init_ui", "scene.draw", "ipydisplay">>]

\* bug: the helpers are added whatever the flags say
update_helpers_always(s, cfg) ==
    [grid |-> [s EXCEPT !.children = Add(@, GridHelper(s.grid3))],
     axes |-> [s EXCEPT !.children = Add(Add(@, GridHelper(s.grid3)), AxesHelper(s.axes3))]]

\* Viewer.update, the two "if self.config.view.show_..." statements: the viewer
\* after the first and after the second
update_helpers(s, cfg) ==
    LET grid == IF cfg.view.show_grid
                THEN [s EXCEPT !.children = Add(@, GridHelper(s.grid3))]
                ELSE s
        axes == IF cfg.view.show_axes
                THEN [grid EXCEPT !.children = Add(@, AxesHelper(s.axes3))]
                ELSE grid
    IN  [grid |-> grid, axes |-> axes]

\* Viewer.update
update(s, cfg, objs) ==
    LET removed == [s EXCEPT !.children = RemoveAll(@, @)]
        cleared == [removed EXCEPT !.children = <<>>]
        grid == update_helpers(cleared, cfg).grid
        axes == update_helpers(cleared, cfg).axes
        d == Draw(objs)
    IN  IF s.scene3 = 0
        THEN [self |-> s, objects |-> objs, result |-> "AttributeError", calls |-> <<>>]
        ELSE IF cfg.view.show_grid /\ s.grid3 = 0
        THEN [self |-> cleared, objects |-> objs, result |-> "AttributeError",
              calls |-> <<>>]
        ELSE IF cfg.view.show_axes /\ s.axes3 = 0
        THEN [self |-> grid, objects |-> objs, result |-> "AttributeError",
              calls |-> <<>>]
        ELSE [self |-> [axes EXCEPT !.children = AttachGuids(@, d)], objects |-> d,
              result |-> "ok", calls |-> <<"scene.draw">>]

\* bug: the text is dropped
set_statustext_dropped(s, values, text) == values

\* Viewer.set_statustext: the values of the text widgets afterwards
set_statustext(s, values, text) ==
    IF s.statustext # 0
    THEN [values EXCEPT ![s.statustext] = text]
    ELSE values

\* the observer "action" of a checkbox of the sidebar: the controller method
\* it looks up and the change it passes on
action(sidebar, change) ==
    [method |-> sidebar.item[1].action, arg |-> change]

(* ------------------------- the plugin registry ------------------------ *)

Types == {"Box", "Mesh", "Sphere"}
Contexts == {"Notebook", "Rhino", "Viewer"}

BoxEntry == [type |-> "Box", adapter |-> "BoxObject", context |-> "Notebook"]

\* compas.scene.register: one adapter per (context, type)
register(registry, type, adapter, context) ==
    {e \in registry : ~(e.type = type /\ e.context = context)}
        \cup {[type |-> type, adapter |-> adapter, context |-> context]}

\* bug: the context of the lines that are commented out
register_scene_objects_rhino(registry) == register(registry, "Box", "BoxObject", "Rhino")

\* the plugin function register_scene_objects of compas_pythreejs.scene
register_scene_objects(registry) == register(registry, "Box", "BoxObject", "Notebook")

\* lookup of the adapters registered for (type, context)
Lookup(registry, type, context) ==
    {e.adapter : e \in {x \in registry : x.type = type /\ x.context = context}}

(* ------------------------------- states ------------------------------- *)

Configs ==
    [view : [height : Heights, show_grid : BOOLEAN, show_axes : BOOLEAN,
             viewport : Viewports],
     ui : [show_toolbar : BOOLEAN, show_statusbar : BOOLEAN,
           sidebar : [show : BOOLEAN, items : ItemLists]]]

NoCall == [op |-> "none", result |-> "ok", calls |-> <<>>, again |-> FALSE]
NotInvoked == [checkbox |-> 0, method |-> "", arg |-> [old |-> FALSE, new |-> FALSE]]

\* the state after Viewer(config=cfg) for a configuration among cfgs
InitWith(cfgs) ==
    /\ config \in cfgs
    /\ objects = <<>>
    /\ self = NewViewer
    /\ textValue = <<>>
    /\ gen = 0
    /\ last = NoCall
    /\ invoked = NotInvoked
    /\ plugin = [imported |-> FALSE, called |-> FALSE, registry |-> {}]

\* configurations with the panels of the user interface all shown
SceneConfigs ==
    {c \in Configs : /\ c.view.height = 500
                     /\ c.ui.show_toolbar /\ c.ui.show_statusbar /\ c.ui.sidebar.show
                     /\ c.ui.sidebar.items = <<CheckboxA>>}

\* configurations with the grid and the axes shown
UiConfigs ==
    {c \in Configs : c.view.show_grid /\ c.view.show_axes /\ c.view.viewport # "perspective"}

(* ------------------------------- actions ------------------------------ *)

\* the record of the last operation: its name, how it ended, the calls it
\* made (for set_statustext: its argument), and whether it is a show() that
\* directly follows a show() that completed
Done(op, result, calls) ==
    last' = [op |-> op, result |-> result, calls |-> calls,
             again |-> op = "show" /\ last.op = "show" /\ last.result = "ok"]

Configured(op) == Done(op, "ok", <<>>)

SetShowGrid ==
    /\ config' = [config EXCEPT !.view.show_grid = ~@]
    /\ Configured("config")
    /\ UNCHANGED <<objects, self, textValue, gen, invoked, plugin>>

SetShowAxes ==
    /\ config' = [config EXCEPT !.view.show_axes = ~@]
    /\ Configured("config")
    /\ UNCHANGED <<objects, self, textValue, gen, invoked, plugin>>

SetViewport ==
    /\ \E v \in Viewports \ {config.view.viewport} :
         config' = [config EXCEPT !.view.viewport = v]
    /\ Configured("config")
    /\ UNCHANGED <<objects, self, textValue, gen, invoked, plugin>>

SetShowToolbar ==
    /\ config' = [config EXCEPT !.ui.show_toolbar = ~@]
    /\ Configured("config")
    /\ UNCHANGED <<objects, self, textValue, gen, invoked, plugin>>

SetShowStatusbar ==
    /\ config' = [config EXCEPT !.ui.show_statusbar = ~@]
    /\ Configured("config")
    /\ UNCHANGED <<objects, self, textValue, gen, invoked, plugin>>

SetSidebarShow ==
    /\ config' = [config EXCEPT !.ui.sidebar.show = ~@]
    /\ Configured("config")
    /\ UNCHANGED <<objects, self, textValue, gen, invoked, plugin>>

\* viewer.scene.add(item): a new scene object, not drawn yet
AddObject ==
    /\ Len(objects) < MaxObjects
    /\ \E k \in PartCounts : objects' = Append(objects, [parts |-> k, drawn |-> FALSE])
    /\ Configured("scene.add")
    /\ UNCHANGED <<config, self, textValue, gen, invoked, plugin>>

Show ==
    /\ gen < MaxShows
    /\ LET r == show(self, config, objects, gen + 1)
       IN  /\ self' = r.self
           /\ objects' = r.objects
           /\ Done("show", r.result, r.calls)
           /\ textValue' = IF r.result = "ok" /\ config.ui.show_statusbar
                           THEN (gen + 1 :> "") @@ textValue
                           ELSE textValue
    /\ gen' = gen + 1
    /\ UNCHANGED <<config, invoked, plugin>>

Update ==
    /\ LET r == update(self, config, objects)
       IN  /\ self' = r.self
           /\ objects' = r.objects
           /\ Done("update", r.result, r.calls)
    /\ UNCHANGED <<config, textValue, gen, invoked, plugin>>

SetStatusText ==
    /\ \E text \in Texts :
         /\ textValue' = set_statustext(self, textValue, text)
         /\ Done("set_statustext", "ok", <<text>>)
    /\ UNCHANGED <<config, objects, self, gen, invoked, plugin>>

\* the user ticks or unticks the j-th checkbox of the sidebar on display
CheckboxChange ==
    /\ \E j \in 1..Len(self.main.sidebar.checkboxes) :
         LET box == self.main.sidebar.checkboxes[j]
             change == [old |-> box.value, new |-> ~box.value]
             call == action(self.main.sidebar, change)
         IN  /\ self' = [self EXCEPT !.main.sidebar.checkboxes[j].value = change.new]
             /\ invoked' = [checkbox |-> j, method |-> call.method, arg |-> call.arg]
    /\ Configured("checkbox")
    /\ UNCHANGED <<config, objects, textValue, gen, plugin>>

\* import compas_pythreejs.scene: defines the plugin functions
ImportPlugin ==
    /\ ~plugin.imported
    /\ plugin' = [plugin EXCEPT !.imported = TRUE]
    /\ UNCHANGED <<config, objects, self, textValue, gen, last, invoked>>

\* another package registers its adapter for another (type, context)
RegisterOther ==
    /\ \E t \in Types, c \in Contexts :
         /\ ~(t = "Box" /\ c = "Notebook")
         /\ plugin' = [plugin EXCEPT !.registry = register(@, t, "OtherObject", c)]
    /\ UNCHANGED <<config, objects, self, textValue, gen, last, invoked>>

\* the plugin manager of the framework calls the "factories" plugin
CallFactories ==
    /\ plugin.imported
    /\ plugin' = [plugin EXCEPT !.called = TRUE,
                                !.registry = register_scene_objects(@)]
    /\ UNCHANGED <<config, objects, self, textValue, gen, last, invoked>>

\* changes of the scene and of the view, show() and update()
Init == InitWith(SceneConfigs)

Next ==
    \/ SetShowGrid
    \/ SetShowAxes
    \/ SetViewport
    \/ AddObject
    \/ Show
    \/ Update

Spec == Init /\ [][Next]_vars

\* changes of the panels, show() and the actions on the widgets
InitUi == InitWith(UiConfigs)

NextUi ==
    \/ SetShowToolbar
    \/ SetShowStatusbar
    \/ SetSidebarShow
    \/ Show
    \/ SetStatusText
    \/ CheckboxChange

SpecUi == InitUi /\ [][NextUi]_vars

\* show() after show() under every configuration
InitShow == InitWith(Configs)

NextShow ==
    \/ AddObject
    \/ Show

SpecShow == InitShow /\ [][NextShow]_vars

\* the import of the plugin module and the registrations
InitPlugin == InitWith({c \in SceneConfigs : c.view.viewport = "perspective"})

NextPlugin ==
    \/ ImportPlugin
    \/ CallFactories
    \/ RegisterOther

SpecPlugin == InitPlugin /\ [][NextPlugin]_vars

(* ------------------------------- claims ------------------------------- *)

Range(seq) == {seq[i] : i \in DOMAIN seq}

Returned(op) == last.op = op /\ last.result = "ok"

\* grid helper iff show_grid, then axes helper iff show_axes
ExpectedHelpers ==
    (IF config.view.show_grid THEN <<GridHelper(self.grid3)>> ELSE <<>>)
        \o (IF config.view.show_axes THEN <<AxesHelper(self.axes3)>> ELSE <<>>)

\* the handles of the scene objects, object by object: Parts handles each
ExpectedHandles ==
    [j \in 1..(Parts * Len(objects)) |->
        <<"mesh", ((j - 1) \div Parts) + 1, ((j - 1) % Parts) + 1>>]

\* C1: whenever update() returns, the children of scene3 are the grid helper
\* iff show_grid, then the axes helper iff show_axes, then the handles of
\* every scene object, object by object, and nothing else.
C1_UpdateRebuildsChildren ==
    Returned("update") => self.children = ExpectedHelpers \o ExpectedHandles

C1_Witness ==
    /\ Returned("update")
    /\ gen = 2
    /\ Len(objects) = 2
    /\ config.view.show_grid /\ ~config.view.show_axes
    /\ self.grid3 = 1
    /\ Len(self.children) = 1 + 2 * Parts

C3_UnsupportedViewportAborts ==
    (last.op = "show" /\ config.view.viewport \notin {"top", "perspective"}) =>
        /\ last.result = "NotImplementedError"
        /\ self.renderer3.id # gen
        /\ self.ui.id # gen /\ self.main.id # gen
        /\ Range(last.calls) \cap {"init_ui", "scene.draw", "ipydisplay"} = {}

C3_Witness ==
    /\ last.op = "show" /\ last.result = "NotImplementedError"
    /\ config.view.viewport = "front"
    /\ gen = 2
    /\ self.renderer3.id = 1
    /\ Len(objects) = 1 /\ ~objects[1].drawn

\* C7: for the viewports "top" and "perspective", show() completes and makes
\* an orthographic camera with rotation disabled, respectively a perspective
\* camera, with the distance of the controls bounded to [0.1, 1000].
C7_CameraMatchesViewport ==
    (last.op = "show" /\ config.view.viewport \in {"top", "perspective"}) =>
        /\ last.result = "ok"
        /\ self.camera3.id = gen /\ self.controls3.controlling = gen
        /\ self.renderer3.camera = gen
        /\ config.view.viewport = "top" =>
               self.camera3.kind = "orthographic" /\ ~self.controls3.enableRotate
        /\ config.view.viewport = "perspective" => self.camera3.kind = "perspective"
        /\ self.controls3.minDistance = 1 /\ self.controls3.maxDistance = 10 * 1000

C7_Witness ==
    /\ Returned("show")
    /\ config.view.viewport = "top"
    /\ gen = 2
    /\ self.camera3 = [kind |-> "orthographic", id |-> 2]
    /\ ~self.controls3.enableRotate

\* C10: whenever the viewer holds a renderer, the scene the renderer displays
\* is the scene graph update() clears and refills.
C10_RendererDisplaysScene3 ==
    self.renderer3.id # 0 => self.renderer3.scene = self.scene3

\* C4: a change of the checkbox of a sidebar item invokes the controller method
\* named by that item's "action" field, with the new value of the checkbox.
C4_CheckboxInvokesOwnAction ==
    last.op = "checkbox" =>
        LET box == self.main.sidebar.checkboxes[invoked.checkbox]
        IN  /\ invoked.method = config.ui.sidebar.items[box.src].action
            /\ invoked.arg.new = box.value

\* C5: set_statustext(text) sets the value of the status text widget when the
\* composed user interface has a status bar, and changes no widget when no
\* status bar was created so far (also before any show()).
C5_SetStatusText ==
    [][last'.op = "set_statustext" =>
         /\ "statusbar" \in Range(self.ui.children) =>
                /\ self.ui.id \in DOMAIN textValue'
                /\ textValue'[self.ui.id] = last'.calls[1]
         /\ DOMAIN textValue = {} => textValue' = textValue /\ self' = self]_vars

C5_Witness ==
    /\ last.op = "set_statustext"
    /\ "statusbar" \in Range(self.ui.children)
    /\ self.ui.id = 2
    /\ DOMAIN textValue = {1, 2}
    /\ textValue[2] = "hello" /\ textValue[1] = "bye"

\* C6: the root widget built by show() holds the toolbar iff show_toolbar, then
\* the main row, then the status bar iff show_statusbar; its declared height
\* is view.height + 64 (toolbar) + 48 (status bar) + 4; the sidebar is in the
\* main row iff sidebar.show and does not change the height.
C6_ComposedUi ==
    Returned("show") =>
        /\ self.ui.id = gen
        /\ self.ui.children =
               (IF config.ui.show_toolbar THEN <<"toolbar">> ELSE <<>>)
                   \o <<"main">>
                   \o (IF config.ui.show_statusbar THEN <<"statusbar">> ELSE <<>>)
        /\ self.ui.height =
               config.view.height
                   + (IF config.ui.show_toolbar THEN 64 ELSE 0)
                   + (IF config.ui.show_statusbar THEN 48 ELSE 0)
                   + 4
        /\ self.main.id = gen
        /\ "sidebar" \in Range(self.main.children) <=> config.ui.sidebar.show
        /\ "view3d" \in Range(self.main.children)

C6_Witness ==
    /\ Returned("show")
    /\ gen = 2
    /\ config.ui.show_toolbar /\ ~config.ui.show_statusbar /\ ~config.ui.sidebar.show
    /\ config.view.height = 300
    /\ self.ui.height = 368
    /\ self.statusbar = 1

\* what show() leaves, up to the identity of the widgets it constructs
Shown(s) ==
    [children |-> [i \in DOMAIN s.children |->
                      IF s.children[i][1] = "mesh" THEN s.children[i]
                      ELSE <<s.children[i][1], 0, 0>>],
     camera |-> s.camera3.kind,
     controls |-> [s.controls3 EXCEPT !.controlling = 0],
     ui |-> [s.ui EXCEPT !.id = 0],
     main |-> [s.main EXCEPT !.id = 0, !.renderer = 0],
     toolbar |-> s.toolbar # 0, statusbar |-> s.statusbar # 0,
     statustext |-> s.statustext # 0]

\* C9: with the configuration and the scene unchanged, a show() that directly
\* follows a completed show() leaves the viewer as the first one did (children
\* of scene3, camera kind, user interface and its height), with no child of
\* scene3 twice.
C9_ShowTwice ==
    [][(Returned("show") /\ last'.op = "show" /\ gen' = gen + 1) =>
         /\ last'.result = "ok"
         /\ Shown(self') = Shown(self)
         /\ Cardinality(Range(self'.children)) = Len(self'.children)]_vars

C9_Witness ==
    /\ Returned("show") /\ last.again
    /\ gen = 2
    /\ Len(objects) = 2
    /\ config.view.show_grid /\ config.view.show_axes
    /\ Len(self.children) = 2 + 2 * Parts
    /\ config.ui.show_statusbar /\ config.ui.sidebar.show

\* C8 as stated: once the plugin module is imported, the registry holds the
\* entry (Box, BoxObject, "Notebook").
C8_RegisteredAtImport ==
    plugin.imported => BoxEntry \in plugin.registry

\* C8 amended: once the plugin manager has called register_scene_objects, the
\* registry holds the entry (Box, BoxObject, "Notebook") and the lookup of
\* (Box, "Notebook") gives the box adapter, whatever else is registered.
C8_RegisteredOnceCalled ==
    plugin.called =>
        /\ BoxEntry \in plugin.registry
        /\ Lookup(plugin.registry, "Box", "Notebook") = {"BoxObject"}

C8_Witness ==
    /\ plugin.called
    /\ Lookup(plugin.registry, "Box", "Notebook") = {"BoxObject"}
    /\ Lookup(plugin.registry, "Box", "Rhino") = {"OtherObject"}
    /\ Lookup(plugin.registry, "Mesh", "Notebook") = {"OtherObject"}

====
